---- MODULE Spec2Model ----
(***************************************************************************)
(* Model of the maths-explainer Streamlit application:                     *)
(*   src/gemini_api.py  the credential pool and generate_with_failover     *)
(*   src/main.py        the session: upload and indexing, clean-up, the    *)
(*                      chat input handler and its quota                   *)
(*                                                                         *)
(* Python strings are modelled as sequences of tokens.  A token stands for *)
(* a run of characters: " " is white space, "ERROR:" is the literal prefix *)
(* the callers test with startswith, "himanshu" / "HiMaNsHu" are spellings *)
(* of the easter-egg word, every other token is ordinary text.             *)
(***************************************************************************)
EXTENDS Integers, Sequences, FiniteSets, TLC

\* ------------------------------------------------------------------ bounds
\* Largest credential pool explored for generate_with_failover.
MaxKeys == 3
\* Handles that may be live at the file service at one time.
MaxRemote == 2
\* Temporary local files that may exist at one time.
MaxTmp == 1
\* Longest message history explored.
MaxHistory == 6
\* Longest topic list and longest subtopic list explored for the filter.
MaxTopics == 2
MaxSubs == 2

\* ----------------------------------------------------------------- strings
\* Python's None, as a text and as an identifier (key, handle, file name)
None == <<"<None>">>
NoneId == "<None>"

IsSpace(tok) == tok = " "

RECURSIVE lstrip(_)
lstrip(s) ==
    IF s = <<>> THEN <<>>
    ELSE IF IsSpace(Head(s)) THEN lstrip(Tail(s)) ELSE s

RECURSIVE rstrip(_)
rstrip(s) ==
    IF s = <<>> THEN <<>>
    ELSE IF IsSpace(s[Len(s)]) THEN rstrip(SubSeq(s, 1, Len(s) - 1)) ELSE s

\* str.strip()
strip(s) == rstrip(lstrip(s))

\* str.startswith("ERROR:")
StartsWithError(s) == s # <<>> /\ Head(s) = "ERROR:"

\* truthiness of a str-or-None value
Truthy(s) == s # None /\ s # <<>>
TruthyId(s) == s # NoneId /\ s # ""

\* ------------------------------------------------- gemini_api.py: results
\* a generate_with_failover call on its own, and what the call before it
\* left in the genai module
VARIABLE gen

ErrNoKeys == <<"ERROR:", " ", "No API keys configured.">>
ErrEmpty == <<"ERROR:", " ", "Empty response from model.">>
ErrAllRateLimited ==
    <<"ERROR:", " ", "All API keys are currently rate-limited. Please wait and try again.">>
ErrUnexpected(e) == <<"ERROR:", " ", "An unexpected error occurred: ">> \o e

\* The credential pools get_api_keys can return: a list without duplicates.
KeyName(i) == "key" \o ToString(i)
Pool(n) == [i \in 1..n |-> KeyName(i)]

\* What the hosted service does with one attempt (one credential).
\*   kind "ok"        generate_content returned; resp.text is .text
\*   kind "quota"     google_exceptions.ResourceExhausted raised by the call .at
\*   kind "error"     any other Exception raised by the call .at
ProviderTexts ==
    { None, <<>>, <<" ">>, <<" ", " ">>, <<"a">>, <<" ", "a", " ">>,
      <<"a", " ", "b">>, <<"ERROR:", "a">> }
FailAt == {"get_file", "generate_content"}
OkOutcome(t) == [kind |-> "ok", at |-> "generate_content", text |-> t]
\* .text of a failure is the message of the exception
FailOutcome(k, a) == [kind |-> k, at |-> a, text |-> <<a>>]
Outcomes ==
    { OkOutcome(t) : t \in ProviderTexts }
        \cup { FailOutcome(k, a) : k \in {"quota", "error"}, a \in FailAt }

\* get_file is called only when a file_name is given (line 58)
OutcomePossible(o, file_name) == o.at = "get_file" => TruthyId(file_name)

Call(op, key) == [op |-> op, key |-> key]

\* The calls one attempt makes before it returns or raises (lines 50-61).
AttemptCalls(key, file_name, o) ==
    <<Call("configure", key)>>
        \o (IF TruthyId(file_name) THEN <<Call("get_file", key)>> ELSE <<>>)
        \o (IF o.at = "generate_content"
               THEN <<Call("generate_content", key)>> ELSE <<>>)

\* line 43: if not api_keys
NoKeysMissingCheck(api_keys) == FALSE
NoKeys(api_keys) == Len(api_keys) = 0

\* line 62: (resp.text or "").strip() or "ERROR: Empty response from model."
ResponseTextNoStrip(t) ==
    LET s == IF Truthy(t) THEN t ELSE <<>>
    IN  IF s # <<>> THEN s ELSE ErrEmpty
ResponseTextNoFallback(t) ==
    IF Truthy(t) THEN t ELSE <<>>
ResponseText(t) ==
    LET s == strip(IF Truthy(t) THEN t ELSE <<>>)
    IN  IF s # <<>> THEN s ELSE ErrEmpty

\* lines 48-66: what the try statement does with the outcome of one attempt
HandlerAllContinue(o) ==
    IF o.kind = "ok" THEN "return_text" ELSE "continue"
HandlerQuotaFatal(o) ==
    IF o.kind = "ok" THEN "return_text" ELSE "return_unexpected"
Handler(o) ==
    CASE o.kind = "ok"     -> "return_text"
      [] o.kind = "quota"  -> "continue"
      [] OTHER             -> "return_unexpected"

\* lines 47-68: the for loop over the pool, from the i-th credential on.
\* The result is the returned string, the return statement taken (path) and
\* the calls made to the hosted service, in order.
RECURSIVE FailoverLoop(_, _, _, _, _)
FailoverLoop(api_keys, i, file_name, script, calls) ==
    IF i > Len(api_keys)
    THEN [text |-> ErrAllRateLimited, path |-> "AllRateLimited", calls |-> calls]
    ELSE LET o  == script[i]
             cs == calls \o AttemptCalls(api_keys[i], file_name, o)
             h  == Handler(o)
         IN  CASE h = "return_text" ->
                    LET r == ResponseText(o.text)
                    IN  [text |-> r,
                         path |-> IF r = ErrEmpty THEN "EmptyResponse" ELSE "Success",
                         calls |-> cs]
               [] h = "return_unexpected" ->
                    [text |-> ErrUnexpected(o.text), path |-> "Unexpected",
                     calls |-> cs]
               [] OTHER -> FailoverLoop(api_keys, i + 1, file_name, script, cs)

\* generate_with_failover(prompt, model_name, file_name, system_instruction)
\* The prompt, model name and system instruction only travel to the service.
generate_with_failover_Sticky(api_keys, file_name, script) ==
    IF NoKeys(api_keys)
    THEN [text |-> ErrNoKeys, path |-> "NoCredentials", calls |-> <<>>]
    ELSE FailoverLoop(api_keys,
             IF gen.last.path = "Success"
             THEN CHOOSE i \in 1..Len(api_keys) : api_keys[i] = gen.last.key
             ELSE 1,
             file_name, script, <<>>)
generate_with_failover(api_keys, file_name, script) ==
    IF NoKeys(api_keys)
    THEN [text |-> ErrNoKeys, path |-> "NoCredentials", calls |-> <<>>]
    ELSE FailoverLoop(api_keys, 1, file_name, script, <<>>)

\* The calls of one kind in a log, and the credentials they used.
CallsOf(log, op) == SelectSeq(log, LAMBDA c : c.op = op)
KeysOf(log) == [j \in 1..Len(log) |-> log[j].key]

\* --------------------------------------------------------------- state
VARIABLES
    api_keys,             \* the cached result of get_api_keys()
    ext,                  \* a topic extraction on its own
    session_state,        \* st.session_state
    uploaded_file,        \* the file the upload control holds (its name)
    remote,               \* handles live at the hosted file service
    tmp_files,            \* temporary local files that exist
    pc,                   \* where the script run is
    prompt,               \* this run's chat input value
    clear_clicked,        \* this run's value of the clear button
    user_message_count,   \* main.py line 348
    uploaded_gemini_file, \* upload_syllabus_to_rag: the polled file object
    local_file_path,      \* upload_syllabus_to_rag: the temporary copy
    prev_store,           \* the handle held when the upload flow started
    calls,                \* calls made to the hosted services in this run
    reply,                \* what the run's last generate_with_failover returned
    chat_input            \* the chat input the finished run left on the page

vars == <<api_keys, gen, ext, session_state, uploaded_file, remote, tmp_files, pc, prompt, clear_clicked, user_message_count,
          uploaded_gemini_file, local_file_path, prev_store, calls, reply,
          chat_input>>

sessionVars == <<session_state, uploaded_file, remote, tmp_files, pc,
                 prompt, clear_clicked, user_message_count,
                 uploaded_gemini_file, local_file_path, prev_store, calls,
                 reply, chat_input>>

\* .last: the key genai was left configured with (genai.configure sets it
\* for the whole process, line 50) and how the call that left it ended
NoLast == [key |-> NoneId, path |-> ""]
NoGen == [called |-> FALSE, file_name |-> NoneId, script |-> <<>>,
          out |-> [text |-> <<>>, path |-> "", calls |-> <<>>],
          last |-> NoLast]

GenCall(file_name, script) ==
    [called |-> TRUE, file_name |-> file_name, script |-> script,
     out |-> generate_with_failover(api_keys, file_name, script),
     last |-> gen.last]

\* what a finished call leaves behind in the genai module
LastOf(g) ==
    LET configured == KeysOf(CallsOf(g.out.calls, "configure"))
    IN  IF configured = <<>> THEN g.last
        ELSE [key |-> configured[Len(configured)], path |-> g.out.path]

Scripts(n, file_name, outcomes) ==
    { s \in [1..n -> outcomes] : \A i \in 1..n : OutcomePossible(s[i], file_name) }

\* ------------------------------------------------------- main.py: session
\* line 445: the number of questions a locked session may ask
Quota == 3

FileNames == {"a.pdf", "b.pdf"}

\* The chat inputs explored: a question and a spelling of the easter egg.
Prompts == { <<"q">>, <<" ", "HiMaNsHu", " ">> }

\* str.lower()
UpperLetters == <<"A", "D", "E", "G", "M", "P">>
LowerLetters == <<"a", "d", "e", "g", "m", "p">>
LowerTok(tok) ==
    CASE tok \in {"HiMaNsHu", "HIMANSHU"} -> "himanshu"
      [] tok = "ERROR:"                   -> "error:"
      [] \E i \in 1..Len(UpperLetters) : UpperLetters[i] = tok ->
             LowerLetters[CHOOSE i \in 1..Len(UpperLetters) : UpperLetters[i] = tok]
      [] OTHER                            -> tok
lower(s) == [i \in 1..Len(s) |-> LowerTok(s[i])]

Msg(role, text) == [role |-> role, text |-> text]
IndexedMsg(name) == <<"I have successfully indexed your syllabus file: ", name>>
UnlockedMsg == <<"Unlimited mode activated!">>

\* line 348: sum(1 for role, _ in chat_history if role == "user")
UserCount(history) == Len(SelectSeq(history, LAMBDA m : m.role = "user"))

\* extracted_topics: None, or the list of cleaned topics
NoOutline == [present |-> FALSE, topics |-> <<>>]
SomeOutline(cleaned_topics) == [present |-> TRUE, topics |-> cleaned_topics]

\* lines 50-62: the session state a new session starts with
InitialSessionState ==
    [chat_history |-> <<>>,
     file_search_store_name |-> NoneId,
     file_name |-> NoneId,
     extracted_topics |-> NoOutline,
     limit_unlocked |-> FALSE]

\* lines 28-47: configure_gemini() holds when the pool is not empty
is_client_configured == api_keys # <<>>

\* lines 68-81: clean_up_store; ok tells whether genai.delete_file returned
clean_up_store_ResetWhenDeleteFails(st, ok) ==
    IF TruthyId(st.file_search_store_name)
    THEN [st EXCEPT !.file_search_store_name = IF ok THEN NoneId ELSE @,
                    !.file_name = IF ok THEN NoneId ELSE @,
                    !.chat_history = <<>>,
                    !.limit_unlocked = FALSE,
                    !.extracted_topics = NoOutline]
    ELSE st
clean_up_store_ForgetsWhenDeleteFails(st, ok) ==
    IF TruthyId(st.file_search_store_name)
    THEN [st EXCEPT !.file_search_store_name = NoneId,
                    !.file_name = NoneId,
                    !.chat_history = <<>>,
                    !.limit_unlocked = FALSE,
                    !.extracted_topics = NoOutline]
    ELSE st
clean_up_store_KeepsHistory(st, ok) ==
    IF TruthyId(st.file_search_store_name) /\ ok
    THEN [st EXCEPT !.file_search_store_name = NoneId,
                    !.file_name = NoneId,
                    !.limit_unlocked = FALSE,
                    !.extracted_topics = NoOutline]
    ELSE st
clean_up_store(st, ok) ==
    IF TruthyId(st.file_search_store_name) /\ ok
    THEN [st EXCEPT !.file_search_store_name = NoneId,
                    !.file_name = NoneId,
                    !.chat_history = <<>>,
                    !.limit_unlocked = FALSE,
                    !.extracted_topics = NoOutline]
    ELSE st

\* line 73: the release clean_up_store issues
CleanUpCallsNone(st) == <<>>
CleanUpCalls(st) ==
    IF TruthyId(st.file_search_store_name)
    THEN <<Call("delete_file", st.file_search_store_name)>>
    ELSE <<>>

\* what genai.delete_file leaves at the file service
AfterDelete(st, ok) ==
    IF TruthyId(st.file_search_store_name) /\ ok
    THEN remote \ {st.file_search_store_name}
    ELSE remote

\* lines 122-125: the finally clause removes the temporary copy
AfterFinally == tmp_files \ {local_file_path}

NoRemoteFile == [name |-> NoneId, state |-> "NONE"]
NoReply == [text |-> <<>>, path |-> ""]
\* The name the file service gives a new file (line 97), and the name
\* tempfile gives a new temporary file (line 89): names not in use.
HandleName(n) == "files/" \o ToString(n)
TmpName(n) == "tmp/" \o ToString(n)
FreshHandle ==
    HandleName(CHOOSE i \in 1..MaxRemote :
        /\ HandleName(i) \notin remote
        /\ \A j \in 1..(i - 1) : HandleName(j) \in remote)
FreshTmp ==
    TmpName(CHOOSE i \in 1..MaxTmp :
        /\ TmpName(i) \notin tmp_files
        /\ \A j \in 1..(i - 1) : TmpName(j) \in tmp_files)

\* What the hosted service does with one attempt made from the session.
SessionOutcomes ==
    { OkOutcome(<<" ", "a">>), OkOutcome(<<"ERROR:", "a">>),
      FailOutcome("quota", "generate_content"), FailOutcome("error", "get_file") }

\* The pools of a deployment with the two named key slots.
SessionPools == { Pool(0), Pool(2) }

\* ------------------------------------- main.py: extract_topics_from_syllabus
\* What json.loads (line 256) returns, or that it raised JSONDecodeError.
\* A str is a sequence of one-character tokens, an int its digits, a list a
\* sequence of values, a dict a function from its keys to values.
JNull == [t |-> "null", v |-> <<>>]
JInt(digits) == [t |-> "int", v |-> digits]
JStr(chars) == [t |-> "str", v |-> chars]
JList(items) == [t |-> "list", v |-> items]
JDict(fields) == [t |-> "dict", v |-> fields]
JDecodeError == [t |-> "decode_error", v |-> <<>>]

Digits == {"0", "1", "2", "3", "4", "5", "6", "7", "8", "9"}
\* str.isdigit()
isdigit(s) == s # <<>> /\ \A i \in 1..Len(s) : s[i] \in Digits
\* "=" in s
has_equals(s) == \E i \in 1..Len(s) : s[i] = "="
\* s.lower().startswith("page")
starts_with_page(s) ==
    Len(s) >= 4 /\ SubSeq(lower(s), 1, 4) = <<"p", "a", "g", "e">>

\* str(subtopic), line 276
str(x) ==
    CASE x.t = "str"  -> x.v
      [] x.t = "int"  -> x.v
      [] x.t = "null" -> <<"N", "o", "n", "e">>
      [] OTHER        -> <<"[", "]">>

\* lines 266-269 and 278-281: the name is a page number, a bare number, an
\* equation or too short
looks_invalid_KeepsEquations(name) ==
    \/ starts_with_page(name)
    \/ isdigit(name)
    \/ Len(name) < 3
looks_invalid(name) ==
    \/ starts_with_page(name)
    \/ isdigit(name)
    \/ has_equals(name)
    \/ Len(name) < 3

\* lines 273-283: the subtopics kept of one topic item
RECURSIVE clean_subtopics(_)
clean_subtopics(subs) ==
    IF subs = <<>> THEN <<>>
    ELSE LET subtopic_clean == strip(str(Head(subs)))
         IN  (IF looks_invalid(subtopic_clean) THEN <<>> ELSE <<subtopic_clean>>)
                 \o clean_subtopics(Tail(subs))

subtopics_of(topic_item) ==
    IF "subtopics" \in DOMAIN topic_item.v /\ topic_item.v.subtopics.t = "list"
    THEN clean_subtopics(topic_item.v.subtopics.v)
    ELSE <<>>

\* lines 260-288: the loop over data["topics"].  .raised tells that an
\* exception left the loop: topic_item["topic"].strip() on a value that is
\* no str (AttributeError).
RECURSIVE clean_topics(_, _)
clean_topics(items, cleaned_topics) ==
    IF items = <<>> THEN [raised |-> FALSE, topics |-> cleaned_topics]
    ELSE LET topic_item == Head(items)
         IN  IF topic_item.t = "dict" /\ "topic" \in DOMAIN topic_item.v
             THEN IF topic_item.v.topic.t # "str"
                  THEN [raised |-> TRUE, topics |-> cleaned_topics]
                  ELSE LET topic_name == strip(topic_item.v.topic.v)
                       IN  IF looks_invalid(topic_name)
                           THEN clean_topics(Tail(items), cleaned_topics)
                           ELSE clean_topics(Tail(items),
                                    Append(cleaned_topics,
                                           [topic |-> topic_name,
                                            subtopics |-> subtopics_of(topic_item)]))
             ELSE clean_topics(Tail(items), cleaned_topics)

\* line 258: "topics" in data and isinstance(data["topics"], list).
\* "raise": the test itself raises TypeError ("in" on an int or None, or
\* data["topics"] on a str or list that holds "topics").
TopicsStr == <<"t", "o", "p", "i", "c", "s">>
has_topics_list(data) ==
    CASE data.t = "dict" ->
            IF "topics" \in DOMAIN data.v /\ data.v.topics.t = "list"
            THEN "yes" ELSE "no"
      [] data.t = "str" ->
            IF \E i \in 1..Len(data.v) :
                   i + 5 <= Len(data.v) /\ SubSeq(data.v, i, i + 5) = TopicsStr
            THEN "raise" ELSE "no"
      [] data.t = "list" ->
            IF \E i \in 1..Len(data.v) :
                   data.v[i].t = "str" /\ data.v[i].v = TopicsStr
            THEN "raise" ELSE "no"
      [] OTHER -> "raise"

\* lines 244-302: what the try statement makes of the parsed reply.
\* .raised: an exception other than json.JSONDecodeError leaves the
\* function; .topics: the value stored in extracted_topics.
parse_topics(data) ==
    IF data.t = "decode_error" THEN [raised |-> FALSE, topics |-> NoOutline]
    ELSE LET test == has_topics_list(data)
         IN  CASE test = "raise" -> [raised |-> TRUE, topics |-> NoOutline]
               [] test = "no"    -> [raised |-> FALSE, topics |-> NoOutline]
               [] OTHER ->
                    LET r == clean_topics(data.v.topics.v, <<>>)
                    IN  IF r.raised THEN [raised |-> TRUE, topics |-> NoOutline]
                        ELSE IF r.topics # <<>>
                             THEN [raised |-> FALSE, topics |-> SomeOutline(r.topics)]
                        ELSE [raised |-> FALSE, topics |-> NoOutline]

\* lines 240-305: extract_topics_from_syllabus.  parsed is what json.loads
\* makes of the reply text once the code fences are taken off.
ExtractRaises(response, parsed) ==
    Truthy(response) /\ ~StartsWithError(response) /\ parse_topics(parsed).raised
extract_topics_from_syllabus(response, parsed) ==
    IF Truthy(response) /\ ~StartsWithError(response)
    THEN parse_topics(parsed).topics
    ELSE NoOutline

\* names as the model writes them
Matrices == <<"M", "a", "t", "r", "i", "c", "e", "s">>
Determinants == <<"D", "e", "t", "e", "r", "m", "i", "n", "a", "n", "t", "s">>
Page3 == <<"P", "a", "g", "e", " ", "3">>
XEq1 == <<"x", "=", "1">>
TopicItem(name, subs) ==
    JDict([topic |-> JStr(name),
           subtopics |-> JList([i \in 1..Len(subs) |-> JStr(subs[i])])])
TopicsDoc(items) == JDict([topics |-> JList(items)])

NoExt == [called |-> FALSE, response |-> <<>>, data |-> JNull,
          raised |-> FALSE, topics |-> NoOutline]

\* The replies the session explores: no JSON, a JSON number, an object
\* without "topics", an outline of page numbers only, an outline.
ParseOutcomes ==
    { JDecodeError, JInt(<<"4", "2">>), JDict([note |-> JNull]),
      TopicsDoc(<<TopicItem(Page3, <<>>)>>),
      TopicsDoc(<<TopicItem(Matrices, <<XEq1, Determinants>>)>>) }

\* What a run logs of a generate_with_failover call: the call, not the
\* attempts inside it.
GenerateCalls(file_name) == <<Call("generate_with_failover", file_name)>>

\* line 445
limit_reached_OffByOne ==
    user_message_count > Quota /\ ~session_state.limit_unlocked
limit_reached ==
    user_message_count >= Quota /\ ~session_state.limit_unlocked

\* line 455: prompt.strip().lower() == "himanshu" and no store
is_easter_egg_AnyDocument(p) ==
    lower(strip(p)) = <<"himanshu">>
is_easter_egg(p) ==
    /\ lower(strip(p)) = <<"himanshu">>
    /\ ~TruthyId(session_state.file_search_store_name)

\* lines 457-458: what the easter egg appends to the history
easter_egg_history_NoUserEntry(history, p) ==
    Append(history, Msg("assistant", UnlockedMsg))
easter_egg_history(history, p) ==
    history \o <<Msg("user", p), Msg("assistant", UnlockedMsg)>>

\* lines 112-113: the history a successful index leaves: the old one is
\* dropped and the assistant's notice about the indexed file is appended
indexed_history_KeepsOld(history, name) ==
    Append(history, Msg("assistant", IndexedMsg(name)))
indexed_history(history, name) ==
    Append(<<>>, Msg("assistant", IndexedMsg(name)))

\* line 373: a held file whose name differs from the session's file name
upload_triggered_AnyHeld(held) == TruthyId(held)
upload_triggered(held) == TruthyId(held) /\ held # session_state.file_name

\* A script run starts: the widgets deliver their values, line 348 counts
\* the user messages and lines 373-377 decide whether to index the held file.
StartRun(p, clicked, held) ==
    /\ upload_triggered(held) /\ is_client_configured
          => Cardinality(remote) < MaxRemote /\ Cardinality(tmp_files) < MaxTmp
    /\ uploaded_file' = held
    /\ prompt' = p
    /\ clear_clicked' = clicked
    /\ user_message_count' = UserCount(session_state.chat_history)
    /\ calls' = <<>>
    /\ reply' = NoReply
    /\ prev_store' = NoneId
    /\ uploaded_gemini_file' = NoRemoteFile
    /\ local_file_path' = NoneId
    /\ chat_input' = "absent"
    /\ pc' = IF upload_triggered(held) /\ is_client_configured
             THEN "upload" ELSE "sidebar"
    /\ UNCHANGED <<api_keys, gen, ext, session_state, remote, tmp_files>>

\* the script run has ended: its values are gone, the page stays
EndRun ==
    /\ pc = "done"
    /\ pc' = "idle"
    /\ prompt' = None
    /\ clear_clicked' = FALSE
    /\ user_message_count' = 0
    /\ calls' = <<>>
    /\ reply' = NoReply
    /\ prev_store' = NoneId
    /\ UNCHANGED <<api_keys, gen, ext, session_state, uploaded_file, remote, tmp_files,
                   uploaded_gemini_file, local_file_path, chat_input>>

\* the first run of a session, and the run st.rerun() starts
Rerun ==
    /\ pc = "rerun"
    /\ StartRun(None, FALSE, uploaded_file)

\* the user puts a file into the upload control, or takes it out
UserSelectsFile ==
    /\ pc = "idle"
    /\ \E f \in (FileNames \cup {NoneId}) \ {uploaded_file} :
           StartRun(None, FALSE, f)

\* the user presses "Clear Indexed Syllabus & Chat"
UserClicksClear ==
    /\ pc = "idle" /\ chat_input # "absent"
    /\ StartRun(None, TRUE, uploaded_file)

\* the user changes the custom instructions (lines 413-423)
UserChangesPreferences ==
    /\ pc = "idle" /\ chat_input # "absent"
    /\ StartRun(None, FALSE, uploaded_file)

\* the user sends a chat input
UserSubmitsPrompt ==
    /\ pc = "idle" /\ chat_input = "enabled"
    /\ \/ Len(session_state.chat_history) + 2 <= MaxHistory
       \/ /\ UserCount(session_state.chat_history) >= Quota
          /\ ~session_state.limit_unlocked
    /\ \E p \in Prompts : StartRun(p, FALSE, uploaded_file)

runLocals == <<prompt, clear_clicked, user_message_count>>

\* line 86: upload_syllabus_to_rag releases the previous store first
UploadCleanUp ==
    /\ pc = "upload"
    /\ \E ok \in BOOLEAN :
          /\ session_state' = clean_up_store(session_state, ok)
          /\ remote' = AfterDelete(session_state, ok)
    /\ calls' = calls \o CleanUpCalls(session_state)
    /\ prev_store' = session_state.file_search_store_name
    /\ pc' = "upload_tmp"
    /\ UNCHANGED <<api_keys, gen, ext, uploaded_file, tmp_files, runLocals,
                   uploaded_gemini_file, local_file_path, reply, chat_input>>

\* lines 89-91: the temporary copy.  An exception here is outside the try
\* statement and ends the script run.
UploadWriteTemp ==
    /\ pc = "upload_tmp"
    /\ \E r \in {"ok", "create_fails", "write_fails"} :
          /\ tmp_files' = IF r = "create_fails" THEN tmp_files
                          ELSE tmp_files \cup {FreshTmp}
          /\ local_file_path' = IF r = "ok" THEN FreshTmp ELSE NoneId
          /\ pc' = IF r = "ok" THEN "upload_submit" ELSE "done"
    /\ UNCHANGED <<api_keys, gen, ext, session_state, uploaded_file, remote, runLocals, uploaded_gemini_file, prev_store, calls, reply,
                   chat_input>>

\* lines 95-99: genai.upload_file
UploadSubmit ==
    /\ pc = "upload_submit"
    /\ calls' = Append(calls, Call("upload_file", uploaded_file))
    /\ \E r \in {"PROCESSING", "ACTIVE", "FAILED", "raise"} :
          IF r = "raise"
          THEN /\ pc' = "upload_except"
               /\ UNCHANGED <<session_state, remote, uploaded_gemini_file>>
          ELSE /\ pc' = "upload_poll"
               /\ remote' = remote \cup {FreshHandle}
               /\ uploaded_gemini_file' = [name |-> FreshHandle, state |-> r]
               /\ session_state' =
                      [session_state EXCEPT
                          !.file_search_store_name = FreshHandle,
                          !.file_name = uploaded_file]
    /\ UNCHANGED <<api_keys, gen, ext, uploaded_file, tmp_files, runLocals,
                   local_file_path, prev_store, reply, chat_input>>

\* lines 103-105: one turn of the polling loop (the reads are not logged)
UploadPoll_GivesUp ==
    /\ pc = "upload_poll"
    /\ uploaded_gemini_file.state = "PROCESSING"
    /\ \E r \in {"PROCESSING", "ACTIVE", "FAILED", "raise", "timeout"} :
          CASE r = "raise" -> pc' = "upload_except" /\ UNCHANGED uploaded_gemini_file
            [] r = "timeout" -> pc' = "sidebar" /\ UNCHANGED uploaded_gemini_file
            [] OTHER ->
                 /\ pc' = "upload_poll"
                 /\ uploaded_gemini_file' = [uploaded_gemini_file EXCEPT !.state = r]
    /\ UNCHANGED <<api_keys, gen, ext, session_state, uploaded_file, remote, tmp_files,
                   runLocals, local_file_path, prev_store, calls,
                   reply, chat_input>>
UploadPoll ==
    /\ pc = "upload_poll"
    /\ uploaded_gemini_file.state = "PROCESSING"
    /\ \E r \in {"PROCESSING", "ACTIVE", "FAILED", "raise"} :
          IF r = "raise"
          THEN pc' = "upload_except" /\ UNCHANGED uploaded_gemini_file
          ELSE /\ pc' = "upload_poll"
               /\ uploaded_gemini_file' = [uploaded_gemini_file EXCEPT !.state = r]
    /\ UNCHANGED <<api_keys, gen, ext, session_state, uploaded_file, remote, tmp_files,
                   runLocals, local_file_path, prev_store, calls,
                   reply, chat_input>>

\* lines 107-114 and 122-125: the file is ACTIVE.  st.rerun() leaves the
\* function by a script-control exception that "except Exception" does not
\* catch; the finally clause still runs.  The locals of
\* upload_syllabus_to_rag end with the function.
UploadActive ==
    /\ pc = "upload_poll"
    /\ uploaded_gemini_file.state = "ACTIVE"
    /\ \E script \in Scripts(Len(api_keys), uploaded_gemini_file.name, SessionOutcomes),
          parsed \in ParseOutcomes :
          LET out == generate_with_failover(api_keys, uploaded_gemini_file.name, script)
          IN  /\ calls' = calls \o GenerateCalls(uploaded_gemini_file.name)
              /\ reply' = [text |-> out.text, path |-> out.path]
              /\ IF ExtractRaises(out.text, parsed)
                 THEN /\ pc' = "upload_except"
                      /\ UNCHANGED <<session_state, tmp_files, uploaded_gemini_file,
                                     local_file_path>>
                 ELSE /\ pc' = "rerun"
                      /\ uploaded_gemini_file' = NoRemoteFile
                      /\ local_file_path' = NoneId
                      /\ session_state' =
                            [session_state EXCEPT
                                !.extracted_topics =
                                    extract_topics_from_syllabus(out.text, parsed),
                                !.chat_history =
                                    indexed_history(@, uploaded_file)]
                      /\ tmp_files' = AfterFinally
    /\ UNCHANGED <<api_keys, gen, ext, uploaded_file, remote, runLocals,
                   prev_store, chat_input>>

\* lines 115-117 and 122-125: the file is in another state than ACTIVE
UploadFailed ==
    /\ pc = "upload_poll"
    /\ uploaded_gemini_file.state = "FAILED"
    /\ \E ok \in BOOLEAN :
          /\ session_state' = clean_up_store(session_state, ok)
          /\ remote' = AfterDelete(session_state, ok)
    /\ calls' = calls \o CleanUpCalls(session_state)
    /\ tmp_files' = AfterFinally
    /\ uploaded_gemini_file' = NoRemoteFile
    /\ local_file_path' = NoneId
    /\ pc' = "sidebar"
    /\ UNCHANGED <<api_keys, gen, ext, uploaded_file, runLocals, prev_store,
                   reply, chat_input>>

\* lines 119-125: an exception inside the try statement
UploadExcept ==
    /\ pc = "upload_except"
    /\ \E ok \in BOOLEAN :
          /\ session_state' = clean_up_store(session_state, ok)
          /\ remote' = AfterDelete(session_state, ok)
    /\ calls' = calls \o CleanUpCalls(session_state)
    /\ tmp_files' = AfterFinally
    /\ uploaded_gemini_file' = NoRemoteFile
    /\ local_file_path' = NoneId
    /\ pc' = "sidebar"
    /\ UNCHANGED <<api_keys, gen, ext, uploaded_file, runLocals, prev_store,
                   reply, chat_input>>

\* lines 434-436: the clear button
ClearButton ==
    /\ pc = "sidebar" /\ clear_clicked
    /\ \E ok \in BOOLEAN :
          /\ session_state' = clean_up_store(session_state, ok)
          /\ remote' = AfterDelete(session_state, ok)
    /\ calls' = calls \o CleanUpCalls(session_state)
    /\ pc' = "rerun"
    /\ UNCHANGED <<api_keys, gen, ext, uploaded_file, tmp_files, runLocals,
                   uploaded_gemini_file, local_file_path, prev_store, reply,
                   chat_input>>

chatUnchanged == <<api_keys, gen, ext, uploaded_file, remote, tmp_files, runLocals, uploaded_gemini_file, local_file_path, prev_store>>

\* lines 447-451: the limit is reached, the chat input is disabled
ChatLimitReached ==
    /\ pc = "sidebar" /\ ~clear_clicked
    /\ limit_reached
    /\ chat_input' = "disabled"
    /\ pc' = "done"
    /\ UNCHANGED <<chatUnchanged, session_state, calls, reply>>

\* line 453: the chat input is shown and delivers nothing
ChatNoPrompt ==
    /\ pc = "sidebar" /\ ~clear_clicked
    /\ ~limit_reached /\ ~Truthy(prompt)
    /\ chat_input' = "enabled"
    /\ pc' = "done"
    /\ UNCHANGED <<chatUnchanged, session_state, calls, reply>>

\* lines 455-459: the easter egg
ChatEasterEgg ==
    /\ pc = "sidebar" /\ ~clear_clicked
    /\ ~limit_reached /\ Truthy(prompt)
    /\ is_easter_egg(prompt)
    /\ session_state' =
          [session_state EXCEPT
              !.limit_unlocked = TRUE,
              !.chat_history = easter_egg_history(@, prompt)]
    /\ chat_input' = "enabled"
    /\ pc' = "rerun"
    /\ UNCHANGED <<chatUnchanged, calls, reply>>

\* lines 461-463: a prompt without an indexed file
ChatNoFile ==
    /\ pc = "sidebar" /\ ~clear_clicked
    /\ ~limit_reached /\ Truthy(prompt)
    /\ ~is_easter_egg(prompt)
    /\ ~TruthyId(session_state.file_search_store_name)
    /\ chat_input' = "enabled"
    /\ pc' = "done"
    /\ UNCHANGED <<chatUnchanged, session_state, calls, reply>>

\* lines 477-481: the history after generate_rag_response has returned
answer_history_StoresError(history, response) ==
    Append(history, Msg("assistant", response))
answer_history(history, response) ==
    IF Truthy(response) /\ ~StartsWithError(response)
    THEN Append(history, Msg("assistant", response))
    ELSE history

\* lines 465-468: a prompt with an indexed file is stored as a user
\* message before the response is generated
ChatAsk ==
    /\ pc = "sidebar" /\ ~clear_clicked
    /\ ~limit_reached /\ Truthy(prompt)
    /\ ~is_easter_egg(prompt)
    /\ TruthyId(session_state.file_search_store_name)
    /\ session_state' =
          [session_state EXCEPT
              !.chat_history = Append(@, Msg("user", prompt))]
    /\ chat_input' = "enabled"
    /\ pc' = "chat_generate"
    /\ UNCHANGED <<chatUnchanged, calls, reply>>

\* lines 470-481: generate_rag_response and what is kept of its result
ChatGenerate ==
    /\ pc = "chat_generate"
    /\ \E script \in Scripts(Len(api_keys), session_state.file_search_store_name,
                             SessionOutcomes) :
          LET out == generate_with_failover(
                         api_keys, session_state.file_search_store_name, script)
          IN  /\ calls' = calls \o GenerateCalls(session_state.file_search_store_name)
              /\ reply' = [text |-> out.text, path |-> out.path]
              /\ session_state' =
                    [session_state EXCEPT
                        !.chat_history = answer_history(@, out.text)]
    /\ pc' = "done"
    /\ UNCHANGED <<chatUnchanged, chat_input>>

SessionStart ==
    /\ session_state = InitialSessionState
    /\ uploaded_file = NoneId
    /\ remote = {}
    /\ tmp_files = {}
    /\ pc = "rerun"
    /\ prompt = None
    /\ clear_clicked = FALSE
    /\ user_message_count = 0
    /\ uploaded_gemini_file = NoRemoteFile
    /\ local_file_path = NoneId
    /\ prev_store = NoneId
    /\ calls = <<>>
    /\ reply = NoReply
    /\ chat_input = "absent"

Init ==
    /\ api_keys \in SessionPools
    /\ gen = NoGen
    /\ ext = NoExt
    /\ SessionStart

Next ==
    \/ Rerun
    \/ EndRun
    \/ UserSelectsFile
    \/ UserClicksClear
    \/ UserChangesPreferences
    \/ UserSubmitsPrompt
    \/ UploadCleanUp
    \/ UploadWriteTemp
    \/ UploadSubmit
    \/ UploadPoll
    \/ UploadActive
    \/ UploadFailed
    \/ UploadExcept
    \/ ClearButton
    \/ ChatLimitReached
    \/ ChatNoPrompt
    \/ ChatEasterEgg
    \/ ChatNoFile
    \/ ChatAsk
    \/ ChatGenerate

Spec == Init /\ [][Next]_vars

\* ------------------------------------ generate_with_failover on its own
InitFailover ==
    /\ api_keys \in { Pool(n) : n \in 0..MaxKeys }
    /\ gen = NoGen
    /\ ext = NoExt
    /\ SessionStart

\* a call without a file (file_name=None)
GeneratePlain ==
    /\ ~gen.called
    /\ \E script \in Scripts(Len(api_keys), NoneId, Outcomes) :
           gen' = GenCall(NoneId, script)
    /\ UNCHANGED <<api_keys, ext, sessionVars>>

\* a call with a file reference
GenerateWithFile ==
    /\ ~gen.called
    /\ \E script \in Scripts(Len(api_keys), "files/1", Outcomes) :
           gen' = GenCall("files/1", script)
    /\ UNCHANGED <<api_keys, ext, sessionVars>>

\* the caller takes the returned string; nothing of the call is kept
GenerateReturn ==
    /\ gen.called
    /\ gen' = [NoGen EXCEPT !.last = LastOf(gen)]
    /\ UNCHANGED <<api_keys, ext, sessionVars>>

NextFailover == GeneratePlain \/ GenerateWithFile \/ GenerateReturn

SpecFailover == InitFailover /\ [][NextFailover]_vars

\* ------------------------------------------ the session with fairness
\* The polling loop reads a state other than PROCESSING, or the read raises.
PollEnds ==
    UploadPoll /\ (uploaded_gemini_file'.state # "PROCESSING" \/ pc' = "upload_except")

\* A session in which the user selects files and presses the clear button
\* but sends no chat input.
NextLive ==
    \/ Rerun
    \/ EndRun
    \/ UserSelectsFile
    \/ UserClicksClear
    \/ UserChangesPreferences
    \/ UploadCleanUp
    \/ UploadWriteTemp
    \/ UploadSubmit
    \/ UploadPoll
    \/ UploadActive
    \/ UploadFailed
    \/ UploadExcept
    \/ ClearButton
    \/ ChatNoPrompt

\* The script run goes on by itself once the polling loop is left, and the
\* file service does not report PROCESSING for ever.
SpecLive ==
    /\ Init /\ [][NextLive]_vars
    /\ WF_vars(PollEnds)
    /\ WF_vars(UploadActive) /\ WF_vars(UploadFailed) /\ WF_vars(UploadExcept)

\* ------------------------------------------- topic extraction on its own
\* topic and subtopic names a reply may hold
TopicNames ==
    { Matrices, Page3, XEq1, <<"P", "A", "G", "E">>, <<"1", "2", "3">>,
      <<"a", "b">>, <<" ", "a", "b", " ">>, <<" ", "M", "a", "p", " ">> }
SubNames == { Determinants, XEq1, <<" ", "4", "2">> }
SeqsUpTo(S, n) == UNION { [1..k -> S] : k \in 0..n }
TopicItems ==
    { TopicItem(Matrices, subs) : subs \in SeqsUpTo(SubNames, MaxSubs) }
        \cup { TopicItem(name, <<>>) : name \in TopicNames }
\* replies that are JSON of another shape than the prompt asks for
OddData ==
    { JDecodeError, JNull, JInt(<<"4", "2">>), JStr(Matrices), JStr(TopicsStr),
      JList(<<>>), JList(<<JStr(TopicsStr)>>), JDict([note |-> JNull]),
      JDict([topics |-> JStr(Matrices)]),
      TopicsDoc(<<JStr(Matrices)>>),
      TopicsDoc(<<JDict([subtopics |-> JList(<<>>)])>>),
      TopicsDoc(<<JDict([topic |-> JInt(<<"7">>)])>>),
      TopicsDoc(<<JDict([topic |-> JNull, subtopics |-> JList(<<>>)])>>),
      TopicsDoc(<<JDict([topic |-> JStr(Matrices)])>>),
      TopicsDoc(<<JDict([topic |-> JStr(Matrices), subtopics |-> JNull])>>),
      TopicsDoc(<<JDict([topic |-> JStr(Matrices),
                         subtopics |-> JList(<<JInt(<<"1", "2", "3", "4">>),
                                               JNull>>)])>>) }
TopicData ==
    OddData \cup { TopicsDoc(items) : items \in SeqsUpTo(TopicItems, MaxTopics) }

\* the model has replied: lines 240-305
ExtractTopics ==
    /\ ~ext.called
    /\ \E response \in { <<"a">>, <<"ERROR:", "a">> }, data \in TopicData :
           ext' = [called |-> TRUE, response |-> response, data |-> data,
                   raised |-> ExtractRaises(response, data),
                   topics |-> extract_topics_from_syllabus(response, data)]
    /\ UNCHANGED <<api_keys, gen, sessionVars>>

\* the function has returned or raised
ExtractReturn ==
    /\ ext.called
    /\ ext' = NoExt
    /\ UNCHANGED <<api_keys, gen, sessionVars>>

InitTopics ==
    /\ api_keys = Pool(1)
    /\ gen = NoGen
    /\ ext = NoExt
    /\ SessionStart

NextTopics == ExtractTopics \/ ExtractReturn

SpecTopics == InitTopics /\ [][NextTopics]_vars

\* ---------------------------------------------- claims: failover caller
Attempted == KeysOf(CallsOf(gen.out.calls, "configure"))
N == Len(api_keys)
QuotaBefore(k) == \A j \in 1..(k - 1) : gen.script[j].kind = "quota"
TextOf(o) == IF Truthy(o.text) THEN o.text ELSE <<>>

\* C1: with a pool of N >= 1 credentials, when every one of the N attempts
\* of a call gets a quota-exceeded response, the call returns the
\* AllRateLimited error after exactly N attempts, one per credential.
C1_AllRateLimited ==
    (gen.called /\ N >= 1 /\ QuotaBefore(N + 1))
        => /\ gen.out.text = ErrAllRateLimited
           /\ gen.out.path = "AllRateLimited"
           /\ Len(Attempted) = N
           /\ Attempted = api_keys

C1_Witness ==
    /\ gen.called /\ N = MaxKeys /\ QuotaBefore(N + 1)
    /\ gen.out.path = "AllRateLimited"
    /\ gen.file_name # NoneId
    /\ gen.script[1].at = "get_file" /\ gen.script[2].at = "generate_content"

\* C2: when credentials 1..k-1 get quota-exceeded responses and credential
\* k returns text that is not empty or white space only, the call returns
\* that text trimmed, as a success, and attempts no credential after k.
C2_SuccessAfterQuota ==
    \A k \in 1..N :
        (/\ gen.called /\ QuotaBefore(k)
         /\ gen.script[k].kind = "ok"
         /\ strip(TextOf(gen.script[k])) # <<>>)
            => /\ gen.out.text = strip(gen.script[k].text)
               /\ gen.out.path = "Success"
               /\ Attempted = SubSeq(api_keys, 1, k)

C2_Witness ==
    /\ gen.called /\ N = MaxKeys /\ QuotaBefore(2)
    /\ gen.script[2] = OkOutcome(<<" ", "a", " ">>)
    /\ gen.out.text = <<"a">>
    /\ Attempted = SubSeq(api_keys, 1, 2)

\* C3: an error other than quota-exceeded on the credential being tried
\* makes the call return Unexpected at once; no later credential is tried,
\* even one that would have succeeded.
C3_UnexpectedStops ==
    \A k \in 1..N :
        (gen.called /\ QuotaBefore(k) /\ gen.script[k].kind = "error")
            => /\ gen.out.path = "Unexpected"
               /\ gen.out.text = ErrUnexpected(gen.script[k].text)
               /\ Attempted = SubSeq(api_keys, 1, k)

C3_Witness ==
    /\ gen.called /\ N >= 2
    /\ gen.script[1].kind = "error"
    /\ gen.script[2] = OkOutcome(<<"a">>)
    /\ gen.out.path = "Unexpected"
    /\ Len(Attempted) = 1

\* C4: a provider call that succeeds with empty or white-space-only text
\* makes the call return the EmptyResponse error, never the white space,
\* and stop without trying the next credential.
C4_EmptyResponse ==
    \A k \in 1..N :
        (/\ gen.called /\ QuotaBefore(k)
         /\ gen.script[k].kind = "ok"
         /\ strip(TextOf(gen.script[k])) = <<>>)
            => /\ gen.out.text = ErrEmpty
               /\ gen.out.path = "EmptyResponse"
               /\ Attempted = SubSeq(api_keys, 1, k)

C4_Witness ==
    /\ gen.called /\ N >= 2
    /\ gen.script[1] = OkOutcome(<<" ", " ">>)
    /\ gen.script[2] = OkOutcome(<<"a">>)
    /\ gen.out.text = ErrEmpty
    /\ Len(Attempted) = 1

\* C5: with an empty credential pool the call returns the NoCredentials
\* error and makes no call to the hosted service (no configure, get_file
\* or generate_content).
C5_NoCredentials ==
    (gen.called /\ N = 0)
        => /\ gen.out.text = ErrNoKeys
           /\ gen.out.path = "NoCredentials"
           /\ gen.out.calls = <<>>

C5_Witness ==
    /\ gen.called /\ N = 0 /\ gen.file_name # NoneId
    /\ gen.out.text = ErrNoKeys

\* C19: every call ends after at most N attempts, one per credential, in
\* pool order from the first credential on, and makes at most one
\* generation request per attempt; nothing of an earlier call matters: the
\* first attempt uses the first credential also when the call before
\* succeeded on a later one.
C19_RestartsFromFirst ==
    gen.called =>
        /\ gen.out.path \in {"NoCredentials", "Success", "EmptyResponse",
                              "Unexpected", "AllRateLimited"}
        /\ Len(Attempted) <= N
        /\ Attempted = SubSeq(api_keys, 1, Len(Attempted))
        /\ N >= 1 => Attempted # <<>> /\ Attempted[1] = api_keys[1]
        /\ KeysOf(CallsOf(gen.out.calls, "generate_content"))
               = SelectSeq(Attempted,
                     LAMBDA k : \E i \in 1..Len(Attempted) :
                         /\ api_keys[i] = k
                         /\ gen.script[i].at = "generate_content")

\* the call before succeeded on the second credential; this call has made
\* its attempts from the first credential on
C19_Witness ==
    /\ gen.called /\ N = MaxKeys
    /\ gen.last = [key |-> api_keys[2], path |-> "Success"]
    /\ gen.out.path = "AllRateLimited"
    /\ Attempted = api_keys

\* ------------------------------------------------- claims: chat input
\* the chat handler (lines 444-481) is about to handle a submitted prompt
AtChatInput == pc = "sidebar" /\ ~clear_clicked /\ Truthy(prompt)
IsSentinel(p) == lower(strip(p)) = <<"himanshu">>
DocumentLive == TruthyId(session_state.file_search_store_name)
Generated(log) == Len(CallsOf(log, "generate_with_failover"))

\* C6: once the history holds Quota (3) user messages and the session is
\* locked, a prompt that reaches the chat handler is rejected: no
\* generation call is made and the session state, the history included,
\* stays as it is.
C6_QuotaRejects ==
    [][ (/\ AtChatInput
         /\ UserCount(session_state.chat_history) >= Quota
         /\ ~session_state.limit_unlocked)
            => /\ session_state' = session_state
               /\ calls' = calls /\ reply' = reply
               /\ chat_input' = "disabled" ]_vars

C6_Witness ==
    /\ pc = "done" /\ Truthy(prompt) /\ chat_input = "disabled"
    /\ UserCount(session_state.chat_history) = Quota
    /\ ~session_state.limit_unlocked
    /\ Generated(calls) = 0

\* C7 as claimed: the sentinel sent while no document is indexed sets
\* unlocked and leaves the number of user messages as it was.
C7_SentinelNotCounted ==
    [][ (AtChatInput /\ IsSentinel(prompt) /\ ~DocumentLive)
            => /\ session_state'.limit_unlocked
               /\ UserCount(session_state'.chat_history)
                      = UserCount(session_state.chat_history) ]_vars

\* C7 amended: the sentinel sent while no document is indexed and the chat
\* input is not limit-reached sets unlocked; the turn is stored as a user
\* message and a confirmation, so the user-message count rises by one, with
\* no generation call; and a locked session never holds a sentinel turn.
C7_SentinelStoredNotEnforced ==
    /\ [][ (AtChatInput /\ IsSentinel(prompt) /\ ~DocumentLive /\ ~limit_reached)
              => /\ session_state'.limit_unlocked
                 /\ UserCount(session_state'.chat_history)
                        = UserCount(session_state.chat_history) + 1
                 /\ Len(session_state'.chat_history)
                        = Len(session_state.chat_history) + 2
                 /\ calls' = calls ]_vars
    /\ [](~session_state.limit_unlocked
              => \A i \in 1..Len(session_state.chat_history) :
                     session_state.chat_history[i].text # UnlockedMsg)

C7_Witness ==
    /\ pc = "rerun" /\ IsSentinel(prompt) /\ ~DocumentLive
    /\ session_state.limit_unlocked
    /\ UserCount(session_state.chat_history) = 2
    /\ Generated(calls) = 0

\* C8 as claimed: in every state the sentinel sets unlocked and causes no
\* generation call.
C8_SentinelAlwaysUnlocks ==
    [][ (AtChatInput /\ IsSentinel(prompt))
            => (session_state'.limit_unlocked /\ calls' = calls) ]_vars

\* C8 amended: the quota check comes first and rejects the sentinel like
\* any prompt; otherwise the sentinel unlocks, without a generation call,
\* only when no document is live; with a live document it is handled as a
\* tutoring question: a generation call is made, unlocked is unchanged.
C8_SentinelOrder ==
    /\ [][ (AtChatInput /\ IsSentinel(prompt))
            => CASE limit_reached ->
                      session_state' = session_state /\ calls' = calls
                 [] ~DocumentLive ->
                      /\ session_state'.limit_unlocked
                      /\ calls' = calls
                      /\ pc' = "rerun"
                 [] OTHER ->
                      /\ session_state'.limit_unlocked = session_state.limit_unlocked
                      /\ session_state'.chat_history
                             = Append(session_state.chat_history,
                                      Msg("user", prompt))
                      /\ pc' = "chat_generate" ]_vars
    /\ [][ pc = "chat_generate"
              => /\ calls' = calls \o
                        GenerateCalls(session_state.file_search_store_name)
                 /\ session_state'.limit_unlocked
                        = session_state.limit_unlocked ]_vars

C8_Witness ==
    /\ pc = "done" /\ IsSentinel(prompt) /\ DocumentLive
    /\ ~session_state.limit_unlocked
    /\ Generated(calls) = 1
    /\ UserCount(session_state.chat_history) >= 1

\* C9 as claimed: once unlocked, always unlocked.
C9_UnlockPermanent ==
    [][ session_state.limit_unlocked => session_state'.limit_unlocked ]_vars

\* C9 amended: unlocked turns false only in a step in which clean_up_store
\* releases a live document with success; that step clears the document
\* fields and empties the history.  Every other step keeps the unlock.
C9_UnlockUntilRelease ==
    [][ (session_state.limit_unlocked /\ ~session_state'.limit_unlocked)
            => /\ DocumentLive
               /\ session_state' = InitialSessionState
               /\ calls' = Append(calls,
                      Call("delete_file", session_state.file_search_store_name))
               /\ remote' = remote \ {session_state.file_search_store_name} ]_vars

C9_Witness ==
    /\ pc = "idle" /\ session_state.limit_unlocked /\ DocumentLive
    /\ UserCount(session_state.chat_history) > Quota
    /\ Cardinality(remote) = MaxRemote

\* C10: when the upload flow starts while a document is indexed, the
\* release (delete_file) of the old handle is issued before the new file
\* is submitted (upload_file).
C10_ReleaseBeforeSubmit ==
    \A j \in 1..Len(calls) :
        (calls[j].op = "upload_file" /\ TruthyId(prev_store))
            => \E i \in 1..(j - 1) : calls[i] = Call("delete_file", prev_store)

C10_Witness ==
    /\ TruthyId(prev_store)
    /\ Len(calls) >= 2
    /\ calls[1] = Call("delete_file", prev_store)
    /\ calls[2].op = "upload_file"
    /\ prev_store \in remote

\* --------------------------------------------- claims: upload and clear
\* the step that ends a successful index (lines 107-114): the only step
\* from the polling loop to st.rerun()
IndexSucceeds == pc = "upload_poll" /\ pc' = "rerun"
\* the state such a step leaves
JustIndexed ==
    /\ pc = "rerun" /\ calls # <<>>
    /\ calls[Len(calls)].op = "generate_with_failover"

\* C11 as claimed: immediately after a successful (re-)index the history
\* holds no message at all.
C11_HistoryEmptyAfterIndex ==
    [][ IndexSucceeds => session_state'.chat_history = <<>> ]_vars

\* C11 amended: immediately after a successful (re-)index the history
\* holds exactly one message, the assistant's notice naming the file just
\* indexed, and so none from the previous document's lifetime.
C11_HistoryOnlyNoticeAfterIndex ==
    [][ IndexSucceeds =>
          /\ TruthyId(session_state'.file_search_store_name)
          /\ session_state'.chat_history
                 = <<Msg("assistant", IndexedMsg(session_state'.file_name))>> ]_vars

\* a re-index whose release of the old handle failed, so that the old
\* history was still there when line 112 ran
C11_Witness ==
    /\ JustIndexed
    /\ TruthyId(prev_store) /\ prev_store \in remote
    /\ session_state.file_search_store_name # prev_store
    /\ session_state.chat_history
           = <<Msg("assistant", IndexedMsg(uploaded_file))>>

\* the step that ends the upload flow on a failure path: the else branch
\* of line 115, the except clause of line 119, or an exception of lines
\* 89-91 that ends the script run
UploadFails ==
    \/ pc \in {"upload_poll", "upload_except"} /\ pc' = "sidebar"
    \/ pc = "upload_tmp" /\ pc' = "done"

\* C12: when the upload flow ends on a failure path, no document is live:
\* the handle the run created is released at the file service and the
\* session's handle and file name are cleared, also when the release call
\* fails.
C12_NoneLiveAfterFailure ==
    [][ UploadFails =>
          /\ session_state'.file_search_store_name = NoneId
          /\ session_state'.file_name = NoneId
          /\ uploaded_gemini_file.name \notin remote' ]_vars

\* unreleased handles that are not the session's current handle
Orphans(st, rem) == rem \ {st.file_search_store_name}

\* C13 as claimed: in every reachable state at most one handle obtained
\* from the file service is unreleased, and it is the session's current
\* handle, also after a release attempt that failed.
C13_AtMostOneUnreleased ==
    /\ Cardinality(remote) <= 1
    /\ remote \subseteq {session_state.file_search_store_name}

\* C13 amended: a handle other than the session's current one is
\* unreleased only as the leftover of a failed release: it comes into
\* being only when a new file is submitted after the release of the
\* previous handle (line 86) was issued and failed, and it is that
\* previous handle.
C13_OrphansOnlyFromFailedRelease ==
    [][ /\ Orphans(session_state', remote')
             \subseteq Orphans(session_state, remote) \cup {prev_store}
        /\ Orphans(session_state', remote') # Orphans(session_state, remote)
             => /\ pc = "upload_submit"
                /\ calls[1] = Call("delete_file", prev_store) ]_vars

C13_Witness ==
    /\ pc = "upload_poll"
    /\ Orphans(session_state, remote) = {prev_store}
    /\ calls[1] = Call("delete_file", prev_store)
    /\ DocumentLive /\ Cardinality(remote) = 2

\* ---------------------------------------------------- claims: the quota
\* C14: in every reachable state of a locked session (limit_unlocked is
\* false) the history holds at most Quota (3) user messages, whatever
\* sentinel, ask, upload and clear actions came before.
C14_LockedWithinQuota ==
    ~session_state.limit_unlocked
        => UserCount(session_state.chat_history) <= Quota

\* a locked session at its quota, after a re-upload whose release failed
C14_Witness ==
    /\ ~session_state.limit_unlocked
    /\ UserCount(session_state.chat_history) = Quota
    /\ pc = "idle" /\ chat_input = "disabled"
    /\ DocumentLive /\ Orphans(session_state, remote) # {}

\* --------------------------------------------------- claims: a chat turn
\* the chat handler accepts the prompt as a question on the live document
AskAccepted ==
    /\ AtChatInput /\ ~limit_reached
    /\ ~is_easter_egg(prompt) /\ DocumentLive

\* C15 as claimed: an accepted chat turn appends exactly two entries, the
\* user prompt and then an assistant entry holding the result or the error
\* text, both after the generation call has resolved.
C15_TwoEntriesAfterCall ==
    /\ [][ AskAccepted
              => session_state'.chat_history = session_state.chat_history ]_vars
    /\ [][ pc = "chat_generate"
              => session_state'.chat_history
                    = SubSeq(session_state.chat_history, 1,
                             Len(session_state.chat_history) - 1)
                        \o <<Msg("user", prompt), Msg("assistant", reply'.text)>> ]_vars

\* C15 amended: an accepted chat turn appends the user prompt before the
\* generation call is made; after the call it appends the returned text
\* as an assistant entry only when that text is not an error (it does not
\* start with "ERROR:"); an error text is not stored, and the turn has
\* then added the user entry alone.
C15_UserThenAnswerUnlessError ==
    /\ [][ AskAccepted
              => /\ session_state'.chat_history
                       = Append(session_state.chat_history, Msg("user", prompt))
                 /\ calls' = calls
                 /\ pc' = "chat_generate" ]_vars
    /\ [][ pc = "chat_generate"
              => /\ calls' = calls \o
                        GenerateCalls(session_state.file_search_store_name)
                 /\ session_state.chat_history[Len(session_state.chat_history)]
                        = Msg("user", prompt)
                 /\ reply'.path # "Success"
                        => session_state'.chat_history = session_state.chat_history
                 /\ session_state'.chat_history =
                        IF StartsWithError(reply'.text)
                        THEN session_state.chat_history
                        ELSE Append(session_state.chat_history,
                                    Msg("assistant", reply'.text))
                 /\ pc' = "done" ]_vars

\* a turn whose call ended AllRateLimited: one user entry and no
\* assistant entry after it
C15_Witness ==
    /\ pc = "done" /\ reply.path = "AllRateLimited"
    /\ Generated(calls) = 1 /\ DocumentLive
    /\ Len(session_state.chat_history) >= 3
    /\ session_state.chat_history[Len(session_state.chat_history)]
           = Msg("user", prompt)
    /\ session_state.chat_history[Len(session_state.chat_history) - 1].role
           = "assistant"

\* ----------------------------------------------- claims: topic extraction
\* C16: topic extraction never aborts the upload flow: whatever text the
\* model returns, once the polled state is ACTIVE the flow ends as a
\* successful index with the document live.
C16_ExtractionNeverAborts ==
    [][ (pc = "upload_poll" /\ uploaded_gemini_file.state = "ACTIVE")
            => /\ pc' = "rerun"
               /\ TruthyId(session_state'.file_search_store_name)
               /\ session_state'.file_search_store_name \in remote' ]_vars

\* the reply parsed to an object whose "topics" is a list of objects, each
\* with a str under "topic" and a list of str under "subtopics"
IsTopicList(data) ==
    /\ data.t = "dict" /\ DOMAIN data.v = {"topics"} /\ data.v.topics.t = "list"
    /\ \A i \in 1..Len(data.v.topics.v) :
          LET it == data.v.topics.v[i]
          IN  /\ it.t = "dict" /\ DOMAIN it.v = {"topic", "subtopics"}
              /\ it.v.topic.t = "str" /\ it.v.subtopics.t = "list"
              /\ \A j \in 1..Len(it.v.subtopics.v) : it.v.subtopics.v[j].t = "str"
ParsedList == ext.called /\ ~StartsWithError(ext.response) /\ IsTopicList(ext.data)
RawName(it) == it.v.topic.v
RawSubs(it) == [j \in 1..Len(it.v.subtopics.v) |-> it.v.subtopics.v[j].v]
Raw(name) == name

\* the four tests of the claim on one name
Keeps(name) ==
    /\ ~starts_with_page(name) /\ ~isdigit(name)
    /\ ~has_equals(name) /\ Len(name) >= 3

\* the entries and subtopics the tests keep, in their order, the tests
\* being made on Norm(name)
KeptOf(items, Norm(_)) ==
    LET kept == SelectSeq(items, LAMBDA it : Keeps(Norm(RawName(it))))
    IN  [i \in 1..Len(kept) |->
            [topic |-> Norm(RawName(kept[i])),
             subtopics |->
                 SelectSeq([j \in 1..Len(RawSubs(kept[i])) |->
                               Norm(RawSubs(kept[i])[j])],
                           Keeps)]]

\* C17 as claimed: the filter keeps exactly the entries and subtopics
\* whose name passes the four tests, and the result is an outline, with
\* zero topics when every entry is dropped.
C17_FilterKeepsByName ==
    ParsedList =>
        /\ ~ext.raised
        /\ ext.topics = SomeOutline(KeptOf(ext.data.v.topics.v, Raw))

\* C17 amended: the tests are made on the name with surrounding white
\* space removed ('page' in any letter case) and the kept names are stored
\* so trimmed; order is kept, a dropped subtopic leaves its topic and its
\* siblings in place; when every entry is dropped no outline is stored.
C17_FilterKeepsByTrimmedName ==
    ParsedList =>
        LET kept == KeptOf(ext.data.v.topics.v, strip)
        IN  /\ ~ext.raised
            /\ ext.topics = IF kept = <<>> THEN NoOutline ELSE SomeOutline(kept)

\* the second example of the claim
C17_Witness ==
    /\ ParsedList
    /\ ext.data = TopicsDoc(<<TopicItem(Matrices, <<XEq1, Determinants>>)>>)
    /\ ext.topics = SomeOutline(<<[topic |-> Matrices,
                                   subtopics |-> <<Determinants>>]>>)

\* ------------------------------------------------ claims: clear and reset
\* C18: from every reachable state the clear button leads to a recovered
\* session: no document is live, the history is empty and the chat input
\* is not limit-reached in the run that follows, also when the release
\* call fails.
C18_ClearRecovers ==
    [][ (pc = "sidebar" /\ clear_clicked)
            => /\ pc' = "rerun"
               /\ ~TruthyId(session_state'.file_search_store_name)
               /\ session_state'.file_name = NoneId
               /\ session_state'.chat_history = <<>>
               /\ \/ UserCount(session_state'.chat_history) < Quota
                  \/ session_state'.limit_unlocked ]_vars

\* ----------------------------------------------- claims: the polling loop
Polling == pc = "upload_poll"
Observed == uploaded_gemini_file.state
UploadFinished == pc \in {"rerun", "sidebar"}

\* C20: the flow polls only while the observed state is PROCESSING and
\* leaves the loop at the first ACTIVE or FAILED; while PROCESSING is
\* observed the flow stays in the loop (only a raising read ends it) and
\* no user input is taken; and if the service does not report PROCESSING
\* for ever, the flow finishes, as a success or as a failure.
C20_PollsUntilFinal ==
    /\ [][ (Polling /\ Observed # "PROCESSING")
              => /\ pc' # "upload_poll"
                 /\ Observed = "ACTIVE" => pc' \in {"rerun", "upload_except"}
                 /\ Observed = "FAILED" => pc' = "sidebar" ]_vars
    /\ [][ (Polling /\ Observed = "PROCESSING")
              => /\ pc' \in {"upload_poll", "upload_except"}
                 /\ pc' = "upload_except" => uploaded_gemini_file' = uploaded_gemini_file
                 /\ session_state' = session_state /\ remote' = remote ]_vars
    /\ [][ Polling => /\ prompt' = prompt /\ clear_clicked' = clear_clicked
                      /\ uploaded_file' = uploaded_file ]_vars
    /\ (Polling ~> UploadFinished)

\* the loop has read PROCESSING again and is still polling
C20_Witness ==
    /\ Polling /\ Observed = "PROCESSING"
    /\ TruthyId(prev_store) /\ DocumentLive
    /\ Len(CallsOf(calls, "upload_file")) = 1

\* ------------------------------------------ claims: the temporary copy
\* C21: on every exit path of the upload flow (success, FAILED state, or
\* an exception from writing the bytes onward) no temporary file created
\* by the run still exists when the flow has ended.
C21_TempRemoved ==
    [][ (UploadFails \/ IndexSucceeds)
            => /\ local_file_path \notin tmp_files'
               /\ tmp_files' \subseteq tmp_files ]_vars

\* ------------------------------------------- claims: the result's tag
\* C22: callers treat a generation result as an error exactly when
\* generate_with_failover ended on one of its error paths: a chat turn
\* stores the text as the assistant answer if and only if the call ended
\* as Success, whatever the text is, and topic extraction stores no
\* outline when the call ended on an error path.
C22_TagFaithful ==
    /\ [][ pc = "chat_generate"
              => (reply'.path = "Success"
                     <=> session_state'.chat_history
                            = Append(session_state.chat_history,
                                     Msg("assistant", reply'.text))) ]_vars
    /\ [][ (IndexSucceeds /\ reply'.path # "Success")
              => session_state'.extracted_topics = NoOutline ]_vars

\* ------------------------------------------- claims: the upload trigger
\* a script run starts: the step that processes a user interaction or a
\* rerun up to the decision of lines 373-377
RunStarts == pc \in {"idle", "rerun"} /\ pc' \in {"upload", "sidebar"}
HeldDiffers ==
    TruthyId(uploaded_file') /\ uploaded_file' # session_state.file_name

\* C23 as claimed: a script run starts the upload flow exactly when the
\* upload control holds a file whose name differs from the stored file
\* name.
C23_TriggerByName ==
    [][ RunStarts => (pc' = "upload" <=> HeldDiffers) ]_vars

\* C23 amended: a script run starts the upload flow exactly when the
\* upload control holds a file whose name differs from the stored file
\* name and the client is configured (the credential pool is not empty);
\* the flow then begins with the session as the run found it.
C23_TriggerByNameWhenConfigured ==
    [][ RunStarts
            => /\ pc' = "upload" <=> (HeldDiffers /\ api_keys # <<>>)
               /\ session_state' = session_state ]_vars

\* the stored file name is empty again after an earlier upload, the
\* control still holds a file, and the run has started the upload flow
C23_Witness ==
    /\ pc = "upload" /\ session_state.file_name = NoneId
    /\ TruthyId(uploaded_file) /\ remote # {}
    /\ prompt = None /\ ~clear_clicked

====
